---- MODULE Spec2Model ----
\* Verification model of the e-mail attestation circuit
\* (circuits/eml_receiver.circom), of its witness builder
\* (tools/build_input.js), of the relayer script (relayer/submit.js) and of the
\* recorder contract EmlProofRecorder.
\*
\* Scale.  The program fixes MAX = 8192 buffer bytes, 31-byte chunks, 8-bit
\* bytes and the BN254 scalar field.  The model keeps the structure and scales
\* the sizes: MAX buffer bytes, ChunkLen-byte chunks, ByteBits-bit bytes and
\* the prime field FieldP, the smallest prime above Base^ChunkLen, so that, as
\* in the program (256^31 < p, 8192 < p), a packed chunk and a sum of MAX
\* booleans never wrap.  Characters are encoded by their position in Charset
\* (NUL is 0), a scaled stand-in for the ASCII table.
EXTENDS Integers, Sequences, FiniteSets, TLC

VARIABLES
    pc,         \* position of the witness builder
    argv,       \* process.argv[2]: the path given, or NoArg
    file,       \* content of the file at that path, or Missing
    eml,        \* the builder's padded buffer (<<>> before it is built)
    idx_from,   \* results of the three literal searches
    idx_to,
    idx_atg,
    off,        \* loop variable of the commitment loop
    h,          \* rolling hash accumulator of the builder
    inputJson,  \* content of input.json, or NoFile
    exitCode,   \* process exit code, -1 while running, 0 normal end
    wit,        \* assignment handed to the circuit, or NoWitness
    witKind,    \* who built that assignment
    verdict,    \* which constraint groups of EmlHasHeadersSimple it satisfies
    lai,        \* one LiteralAtIndex instance under test (gadget specification)
    rp,         \* one EmlHasHeadersSimple(n) instance: its RollingPoseidon component
    pk,         \* two chunks handed to the circuit packer and to pack31LE
    \* relayer script (relayer/submit.js)
    rpc,            \* position of the script
    privateKey,     \* process.env.PRIVATE_KEY is set
    ethersV,        \* major version of the installed ethers package
    cacheFile,      \* content of relayer/circom-vkey.json, <<>> if absent
    regRequests,    \* register-vk requests sent, over all runs
    runs,           \* runs of the script started in this working directory
    vkReg,          \* the registration in use
    vkHash,         \* vkReg.vkHash || vkReg.meta.vkHash
    submitted,      \* proofData.vk of the submit-proof request
    last,           \* the latest job-status response
    polls,          \* job-status requests of this run, counted up to MaxPolls
    leafComputed,   \* the leaf recomputed offchain
    vkHashHex,      \* <<f>>, f the vkHash field read back from the cache file
    viewCalls,      \* verifyProofAggregation view calls of this run
    viewOk,         \* outcome of the view call
    txs,            \* recording transactions sent in this run, with their fate
    rexit,          \* exit code of the script, -1 while running
    \* recorder contract (EmlProofRecorder)
    statementToTxHash,  \* mapping(bytes32 => bytes32)
    events,             \* ProofRecorded events emitted
    lastCall            \* the latest external call and how it ended

relayerVars == <<rpc, privateKey, ethersV, cacheFile, regRequests, runs, vkReg,
                 vkHash, submitted, last, polls, leafComputed, vkHashHex, viewCalls, viewOk,
                 txs, rexit>>

recorderVars == <<statementToTxHash, events, lastCall>>

vars == <<pc, argv, file, eml, idx_from, idx_to, idx_atg, off, h, inputJson,
          exitCode, wit, witKind, verdict, lai, rp, pk, relayerVars, recorderVars>>

\* the state of the other specifications, as seen from builder, prover and gadget
extVars == <<rp, pk, relayerVars, recorderVars>>

builderVars == <<pc, argv, file, eml, idx_from, idx_to, idx_atg, off, h,
                 inputJson, exitCode>>

circuitVars == <<wit, witKind, verdict>>

-----------------------------------------------------------------------------
\* Sizes

\* buffer capacity (8192 in build_input.js:7 and eml_receiver.circom:190)
MAX == 25

\* bytes per chunk (31 in the program)
ChunkLen == 2

\* bits per byte (Num2Bits(8) in the program)
ByteBits == 4

\* a raw document is a concatenation of at most MaxFrags fragments
MaxFrags == 4

\* size of the LiteralAtIndex instance of the gadget specification
GadgetLen == 4

\* largest literal length of the gadget specification
GadgetLitMax == 3

RECURSIVE Pow(_, _)
Pow(b, e) == IF e = 0 THEN 1 ELSE b * Pow(b, e - 1)

Base == Pow(2, ByteBits)

IsPrime(n) == n > 1 /\ \A d \in 2..n : (d * d > n) \/ (n % d # 0)

FieldFloor == IF Pow(Base, ChunkLen) > MAX THEN Pow(Base, ChunkLen) ELSE MAX

\* the field modulus: smallest prime above every packed chunk and above MAX
FieldP == CHOOSE p \in (FieldFloor + 1)..(2 * FieldFloor + 2) :
              IsPrime(p) /\ \A q \in (FieldFloor + 1)..(p - 1) : ~IsPrime(q)

-----------------------------------------------------------------------------
\* Field arithmetic of the constraint system

\* the canonical representative 0..FieldP-1 of an integer
FE(x) == x % FieldP

\* operations on canonical representatives
FAdd(a, b) == (a + b) % FieldP

FSub(a, b) == (a - b + FieldP) % FieldP

FMul(a, b) == (a * b) % FieldP

\* 0-based access to an array held as a sequence
At(s, i) == s[i + 1]

RECURSIVE SumTo(_, _)
\* sum of f[0..n-1] as integers, f a 0-based array
SumTo(f, n) == IF n <= 0 THEN 0 ELSE SumTo(f, n - 1) + At(f, n - 1)

\* the arity-2 compression function (Poseidon(2) / circomlibjs poseidon) on
\* canonical field elements: a fixed nonlinear map F x F -> F, the same one
\* on both sides
Compress(a, b) ==
    LET t == (a * a + b) % FieldP
    IN  (t * t + 3 * b + a + 7) % FieldP

-----------------------------------------------------------------------------
\* Characters and literals (tools/build_input.js)

Charset == <<"F", "r", "o", "m", ":", "T", "@", "g", "a", "i", "l", ".", "c", "x">>

CharCode(ch) == CHOOSE k \in 1..Len(Charset) : Charset[k] = ch

strBytesAscii(s) == [k \in 1..Len(s) |-> CharCode(s[k])]

fromStr == <<"F", "r", "o", "m", ":">>

toStr == <<"T", "o", ":">>

atgStr == <<"@", "g", "m", "a", "i", "l", ".", "c", "o", "m">>

-----------------------------------------------------------------------------
\* Circuit templates (circuits/eml_receiver.circom).  A template is modelled by
\* the values of its outputs and by the truth of its constraints at a given
\* assignment of its inputs; signals are field elements 0..FieldP-1.

\* circomlib Num2Bits(n): out[i] = (in >> i) & 1, each bit boolean, and
\* sum of out[i] * 2^i === in.  BitSum is that sum, least significant bit first.
RECURSIVE BitSum(_, _)
BitSum(in, n) == IF n = 0 THEN 0 ELSE (in % 2) + 2 * BitSum(in \div 2, n - 1)

Num2Bits(n, in) == FE(BitSum(in, n)) = in

ByteIsUint8(b) == Num2Bits(ByteBits, b)

\* PackerBytesOk with the loop over i stopping before the last byte
PackerBytesOk_SkipLast(bytes) == \A i \in 0..(ChunkLen - 2) : ByteIsUint8(At(bytes, i))

\* Pack31BytesLittleEndian, the range checks: isByte[i].b <== bytes[i]
PackerBytesOk(bytes) == \A i \in 0..(ChunkLen - 1) : ByteIsUint8(At(bytes, i))

RECURSIVE PackLoop_NarrowStride(_, _, _, _)
\* PackLoop multiplying mulCalc by one less than the base
PackLoop_NarrowStride(bytes, j, accCalc, mulCalc) ==
    IF j = ChunkLen THEN accCalc
    ELSE PackLoop_NarrowStride(bytes, j + 1, FAdd(accCalc, FMul(At(bytes, j), mulCalc)),
                               FMul(mulCalc, Base - 1))

RECURSIVE PackLoop(_, _, _, _)
\* Pack31BytesLittleEndian, the loop over j with its variables accCalc, mulCalc
PackLoop(bytes, j, accCalc, mulCalc) ==
    IF j = ChunkLen THEN accCalc
    ELSE PackLoop(bytes, j + 1, FAdd(accCalc, FMul(At(bytes, j), mulCalc)),
                  FMul(mulCalc, Base))

\* Pack31BytesLittleEndian, out <== accCalc
PackerOut(bytes) == PackLoop(bytes, 0, 0, 1)

\* the ChunkLen inputs of packers[c]
PackerInput(maxLen, buf, c) ==
    [k1 \in 1..ChunkLen |->
        LET idx == c * ChunkLen + (k1 - 1)
        IN  IF idx < maxLen THEN At(buf, idx) ELSE 0]

RECURSIVE RollingH(_, _, _)
\* H[i2].out, with H[i2].inputs[0] = (i2 == 0 ? 0 : H[i2-1].out) and
\* H[i2].inputs[1] = packers[i2].out
RollingH(maxLen, buf, i2) ==
    LET in0 == IF i2 = 0 THEN 0 ELSE RollingH(maxLen, buf, i2 - 1)
        in1 == PackerOut(PackerInput(maxLen, buf, i2))
    IN  \* both inputs are signals, computed before the compression is applied
        CASE in0 >= 0 /\ in1 >= 0 -> Compress(in0, in1)

RollingPoseidon(maxLen, numChunks, buf) ==
    [ok         |-> \A c \in 0..(numChunks - 1) :
                        PackerBytesOk(PackerInput(maxLen, buf, c)),
     commitment |-> RollingH(maxLen, buf, numChunks - 1)]

\* LiteralAtIndex, one operator per group of constraints
POSITIONS(MAX_EML_LEN, LIT_LEN) == MAX_EML_LEN - LIT_LEN + 1

\* LaiBoolean with the boolean constraints left out
LaiBoolean_Omitted(MAX_EML_LEN, LIT_LEN, sel) == TRUE

\* sel[t] * (sel[t] - 1) === 0 for t in the window
LaiBoolean(MAX_EML_LEN, LIT_LEN, sel) ==
    \A t \in 0..(POSITIONS(MAX_EML_LEN, LIT_LEN) - 1) :
        FMul(At(sel, t), FSub(At(sel, t), 1)) = 0

\* LaiSum with the sum constraint left out
LaiSum_Omitted(MAX_EML_LEN, LIT_LEN, sel) == TRUE

\* LaiSum accepting any nonzero sum
LaiSum_Nonzero(MAX_EML_LEN, LIT_LEN, sel) ==
    FE(SumTo(sel, POSITIONS(MAX_EML_LEN, LIT_LEN))) # 0

\* sumSel === 1
LaiSum(MAX_EML_LEN, LIT_LEN, sel) ==
    FE(SumTo(sel, POSITIONS(MAX_EML_LEN, LIT_LEN))) = 1

\* sel[u] === 0 for u outside the window
LaiZeroOutside(MAX_EML_LEN, LIT_LEN, sel) ==
    \A u \in POSITIONS(MAX_EML_LEN, LIT_LEN)..(MAX_EML_LEN - 1) : At(sel, u) = 0

\* LaiMatch with the loop over i stopping one byte early
LaiMatch_ShortLoop(MAX_EML_LEN, LIT_LEN, buf, lit, sel) ==
    \A i \in 0..(LIT_LEN - 2) :
        \A t2 \in 0..(POSITIONS(MAX_EML_LEN, LIT_LEN) - 1) :
            FMul(At(sel, t2), FSub(At(buf, t2 + i), At(lit, i))) = 0

\* sel[t2] * (eml[t2 + i] - lit[i]) === 0
LaiMatch(MAX_EML_LEN, LIT_LEN, buf, lit, sel) ==
    \A i \in 0..(LIT_LEN - 1) :
        \A t2 \in 0..(POSITIONS(MAX_EML_LEN, LIT_LEN) - 1) :
            FMul(At(sel, t2), FSub(At(buf, t2 + i), At(lit, i))) = 0

LiteralAtIndex(MAX_EML_LEN, LIT_LEN, buf, lit, sel) ==
    [boolean |-> LaiBoolean(MAX_EML_LEN, LIT_LEN, sel),
     sum     |-> LaiSum(MAX_EML_LEN, LIT_LEN, sel),
     zero    |-> LaiZeroOutside(MAX_EML_LEN, LIT_LEN, sel),
     match   |-> LaiMatch(MAX_EML_LEN, LIT_LEN, buf, lit, sel)]

LaiSatisfied(r) == r.boolean /\ r.sum /\ r.zero /\ r.match

\* the chunk count written into EmlHasHeadersSimple: the program writes 265,
\* which is ceil(8192 / 31); the model writes the same quotient of its sizes
NUM_CHUNKS == (MAX + ChunkLen - 1) \div ChunkLen

\* CommitmentConstraint with the equality left out
CommitmentConstraint_Omitted(rhCommitment, eml_commitment) == TRUE

\* RH.commitment === eml_commitment
CommitmentConstraint(rhCommitment, eml_commitment) ==
    rhCommitment = eml_commitment

\* HAS_FROM.lit <== from_bytes, HAS_TO.lit <== to_bytes, HAS_ATG.lit <== atg_bytes:
\* the literals are private inputs
\* HasFromLit wired to the constant bytes of "From:" instead of the input
HasFromLit_Pinned(a) == strBytesAscii(fromStr)

HasFromLit(a) == a.from_bytes

HasToLit(a) == a.to_bytes

HasAtgLit(a) == a.atg_bytes

\* LiteralAtIndex(MAX_EML_LEN, 5), (MAX_EML_LEN, 3), (MAX_EML_LEN, 10)
FROM_LEN == 5

TO_LEN == 3

ATG_LEN == 10

EmlHasHeadersSimple(MAX_EML_LEN, a) ==
    LET RH == RollingPoseidon(MAX_EML_LEN, NUM_CHUNKS, a.eml)
    IN  [bytes  |-> RH.ok,
         commit |-> CommitmentConstraint(RH.commitment, a.eml_commitment),
         from   |-> LaiSatisfied(LiteralAtIndex(MAX_EML_LEN, FROM_LEN, a.eml,
                                                HasFromLit(a), a.sel_from)),
         to     |-> LaiSatisfied(LiteralAtIndex(MAX_EML_LEN, TO_LEN, a.eml,
                                                HasToLit(a), a.sel_to)),
         atg    |-> LaiSatisfied(LiteralAtIndex(MAX_EML_LEN, ATG_LEN, a.eml,
                                                HasAtgLit(a), a.sel_atg))]

Satisfied(v) == v.bytes /\ v.commit /\ v.from /\ v.to /\ v.atg

\* component main = EmlHasHeadersSimple(8192)
Main(a) == EmlHasHeadersSimple(MAX, a)

-----------------------------------------------------------------------------
\* Witness builder (tools/build_input.js)

RECURSIVE PackLE(_, _, _, _)
\* the loop of pack31LE with its variables acc, mul (BigInt, not reduced);
\* bytes[i] || 0 reads a missing entry as 0
PackLE(bytes, i, acc, mul) ==
    IF i = ChunkLen THEN acc
    ELSE PackLE(bytes, i + 1,
                acc + (IF i < Len(bytes) THEN At(bytes, i) ELSE 0) * mul,
                mul * Base)

RECURSIVE PackBE(_, _, _)
\* pack31LE packing most significant byte first
PackBE(bytes, i, acc) ==
    IF i = ChunkLen THEN acc
    ELSE PackBE(bytes, i + 1, acc * Base + (IF i < Len(bytes) THEN At(bytes, i) ELSE 0))

pack31LE_BigEndian(bytes) == PackBE(bytes, 0, 0)

pack31LE(bytes) == PackLE(bytes, 0, 0, 1)

\* Array.prototype.slice(lo, hi) / Buffer.prototype.slice(lo, hi)
Slice(s, lo, hi) ==
    LET e == IF hi < Len(s) THEN hi ELSE Len(s)
    IN  IF lo >= e THEN <<>> ELSE SubSeq(s, lo + 1, e)

\* lit occurs in buf at offset t
OccursAt(buf, lit, t) ==
    /\ t >= 0
    /\ t + Len(lit) <= Len(buf)
    /\ \A i \in 0..(Len(lit) - 1) : At(buf, t + i) = At(lit, i)

\* indexOf returning the last occurrence
indexOf_Last(buf, lit) ==
    LET hits == {t \in 0..(Len(buf) - Len(lit)) : OccursAt(buf, lit, t)}
    IN  IF hits = {} THEN -1 ELSE CHOOSE t \in hits : \A u \in hits : t >= u

\* Buffer.prototype.indexOf(value): offset of the first occurrence, or -1
indexOf(buf, lit) ==
    LET hits == {t \in 0..(Len(buf) - Len(lit)) : OccursAt(buf, lit, t)}
    IN  IF hits = {} THEN -1 ELSE CHOOSE t \in hits : \A u \in hits : t <= u

\* oneHot setting the entry after pos
oneHot_OffByOne(length, pos) ==
    [k \in 1..length |-> IF pos >= 0 /\ pos < length /\ k - 1 = pos + 1 THEN 1 ELSE 0]

oneHot(length, pos) ==
    [k \in 1..length |-> IF pos >= 0 /\ pos < length /\ k - 1 = pos THEN 1 ELSE 0]

\* PadTo without the cut at MAX
PadTo_NoCut(raw) == raw \o [k \in 1..(MAX - Len(raw)) |-> 0]

\* raw.slice(0, MAX), then push(0) while shorter than MAX
PadTo(raw) ==
    LET cut == Slice(raw, 0, MAX)
    IN  cut \o [k \in 1..(MAX - Len(cut)) |-> 0]

RECURSIVE Dec(_)
\* Number.prototype.toString() / BigInt.prototype.toString(): decimal digits,
\* most significant first
Dec(n) == IF n < 10 THEN <<n>> ELSE Append(Dec(n \div 10), n % 10)

RECURSIVE FromDec(_)
\* the value the witness calculator reads from a decimal string
FromDec(d) ==
    IF Len(d) = 0 THEN 0 ELSE FromDec(SubSeq(d, 1, Len(d) - 1)) * 10 + d[Len(d)]

DecAll(a) == [k \in 1..Len(a) |-> Dec(a[k])]

FromDecAll(a) == [k \in 1..Len(a) |-> FE(FromDec(a[k]))]

\* the object written to input.json
InputObject ==
    [eml_commitment |-> Dec(h),
     eml            |-> DecAll(eml),
     from_bytes     |-> DecAll(strBytesAscii(fromStr)),
     to_bytes       |-> DecAll(strBytesAscii(toStr)),
     atg_bytes      |-> DecAll(strBytesAscii(atgStr)),
     sel_from       |-> DecAll(oneHot(MAX, idx_from)),
     sel_to         |-> DecAll(oneHot(MAX, idx_to)),
     sel_atg        |-> DecAll(oneHot(MAX, idx_atg))]

\* the assignment the witness calculator derives from input.json
ParseInput(j) ==
    [eml_commitment |-> FE(FromDec(j.eml_commitment)),
     eml            |-> FromDecAll(j.eml),
     from_bytes     |-> FromDecAll(j.from_bytes),
     to_bytes       |-> FromDecAll(j.to_bytes),
     atg_bytes      |-> FromDecAll(j.atg_bytes),
     sel_from       |-> FromDecAll(j.sel_from),
     sel_to         |-> FromDecAll(j.sel_to),
     sel_atg        |-> FromDecAll(j.sel_atg)]

\* Documents: concatenations of at most MaxFrags fragments
Frags == {strBytesAscii(fromStr), strBytesAscii(toStr), strBytesAscii(atgStr),
          strBytesAscii(<<"x">>)}

RECURSIVE DocsOf(_)
DocsOf(k) ==
    IF k = 0 THEN {<<>>}
    ELSE DocsOf(k - 1) \cup {d \o f : d \in DocsOf(k - 1), f \in Frags}

Docs == DocsOf(MaxFrags)

IdleLai == [n |-> 0, l |-> 0, eml |-> <<>>, lit |-> <<>>, sel |-> <<>>, res |-> <<>>]

\* no EmlHasHeadersSimple instance is being built
IdleRp == [maxLen |-> 0, eml |-> <<>>, c |-> 0, fed |-> <<>>, h |-> 0]

\* no chunk is being packed
IdlePk == [on |-> FALSE, a |-> <<>>, b |-> <<>>, res |-> <<>>]

\* the relayer script is not running
RelayerIdle ==
    /\ rpc = "idle"
    /\ privateKey = FALSE
    /\ ethersV = 5
    /\ cacheFile = <<>>
    /\ regRequests = 0
    /\ runs = 0
    /\ vkReg = <<>>
    /\ vkHash = <<>>
    /\ submitted = <<>>
    /\ last = <<>>
    /\ polls = 0
    /\ leafComputed = <<>>
    /\ vkHashHex = <<>>
    /\ viewCalls = <<>>
    /\ viewOk = "none"
    /\ txs = <<>>
    /\ rexit = -1

\* no recorder contract is deployed
RecorderIdle ==
    /\ statementToTxHash = <<>>
    /\ events = {}
    /\ lastCall = <<>>

\* the other specifications are not running
ExtIdle == rp = IdleRp /\ pk = IdlePk /\ RelayerIdle /\ RecorderIdle

Init ==
    /\ pc = "start"
    /\ \/ argv = <<>> /\ file = <<>>
       \/ argv = <<"email.eml">> /\ (file = <<>> \/ \E d \in Docs : file = <<d>>)
    /\ eml = <<>>
    /\ idx_from = -1
    /\ idx_to = -1
    /\ idx_atg = -1
    /\ off = 0
    /\ h = 0
    /\ inputJson = <<>>
    /\ exitCode = -1
    /\ wit = <<>>
    /\ witKind = "none"
    /\ verdict = <<>>
    /\ lai = IdleLai
    /\ ExtIdle

\* if (!emlPath) { ...; process.exit(1) }
Usage ==
    /\ pc = "start"
    /\ argv = <<>>
    /\ pc' = "exit"
    /\ exitCode' = 1
    /\ UNCHANGED <<argv, file, eml, idx_from, idx_to, idx_atg, off, h, inputJson,
                   wit, witKind, verdict, lai>>
    /\ UNCHANGED extVars

\* readFileSync throws for a missing file: the .catch handler exits with 3
ReadFails ==
    /\ pc = "start"
    /\ argv # <<>>
    /\ file = <<>>
    /\ pc' = "exit"
    /\ exitCode' = 3
    /\ UNCHANGED <<argv, file, eml, idx_from, idx_to, idx_atg, off, h, inputJson,
                   wit, witKind, verdict, lai>>
    /\ UNCHANGED extVars

\* raw = readFileSync(emlPath); eml = raw.slice(0, MAX) padded with zeros
ReadAndPad ==
    /\ pc = "start"
    /\ argv # <<>>
    /\ file # <<>>
    /\ eml' = PadTo(file[1])
    /\ pc' = "search"
    /\ UNCHANGED <<argv, file, idx_from, idx_to, idx_atg, off, h, inputJson,
                   exitCode, wit, witKind, verdict, lai>>
    /\ UNCHANGED extVars

\* SearchLiterals exiting only when all three literals are absent
SearchLiterals_AllAbsent ==
    /\ pc = "search"
    /\ idx_from' = indexOf(eml, strBytesAscii(fromStr))
    /\ idx_to' = indexOf(eml, strBytesAscii(toStr))
    /\ idx_atg' = indexOf(eml, strBytesAscii(atgStr))
    /\ IF idx_from' < 0 /\ idx_to' < 0 /\ idx_atg' < 0
       THEN pc' = "exit" /\ exitCode' = 2
       ELSE pc' = "hash" /\ exitCode' = exitCode
    /\ UNCHANGED <<argv, file, eml, off, h, inputJson, wit, witKind, verdict, lai>>
    /\ UNCHANGED extVars

\* the three buf.indexOf calls and the check that follows them
SearchLiterals ==
    /\ pc = "search"
    /\ idx_from' = indexOf(eml, strBytesAscii(fromStr))
    /\ idx_to' = indexOf(eml, strBytesAscii(toStr))
    /\ idx_atg' = indexOf(eml, strBytesAscii(atgStr))
    /\ IF idx_from' < 0 \/ idx_to' < 0 \/ idx_atg' < 0
       THEN pc' = "exit" /\ exitCode' = 2
       ELSE pc' = "hash" /\ exitCode' = exitCode
    /\ UNCHANGED <<argv, file, eml, off, h, inputJson, wit, witKind, verdict, lai>>
    /\ UNCHANGED extVars

\* the body of the commitment loop: chunk = pack31LE(eml.slice(off, off + 31));
\* h = poseidon([F.e(h), F.e(chunk)])
HashStep(buf, o, hh) == Compress(FE(hh), FE(pack31LE(Slice(buf, o, o + ChunkLen))))

RECURSIVE HashLoop(_, _, _)
\* the commitment loop from offset o on: for (; off < MAX; off += 31)
HashLoop(buf, o, hh) ==
    IF o < MAX
    THEN LET next == HashStep(buf, o, hh)
         IN  \* h is assigned before the next round starts
             CASE next >= 0 -> HashLoop(buf, o + ChunkLen, next)
    ELSE hh

\* one round of the commitment loop
HashChunk ==
    /\ pc = "hash"
    /\ off < MAX
    /\ h' = HashStep(eml, off, h)
    /\ off' = off + ChunkLen
    /\ UNCHANGED <<pc, argv, file, eml, idx_from, idx_to, idx_atg, inputJson,
                   exitCode, wit, witKind, verdict, lai>>
    /\ UNCHANGED extVars

\* the loop has ended: build the input object and write input.json
WriteInput ==
    /\ pc = "hash"
    /\ ~(off < MAX)
    /\ inputJson' = <<InputObject>>
    /\ pc' = "done"
    /\ exitCode' = 0
    /\ UNCHANGED <<argv, file, eml, idx_from, idx_to, idx_atg, off, h, wit,
                   witKind, verdict, lai>>
    /\ UNCHANGED extVars

-----------------------------------------------------------------------------
\* The prover: every input signal of the main component is supplied by the
\* prover, who may hand over the builder's input.json or any other assignment.

\* assignment a is handed to the circuit
Supply(a, kind) ==
    /\ wit' = <<a>>
    /\ witKind' = kind
    /\ UNCHANGED verdict
    /\ UNCHANGED builderVars
    /\ UNCHANGED lai
    /\ UNCHANGED extVars

Window(buf, p, len) == SubSeq(buf, p + 1, p + len)

\* field values a tampering prover writes into the buffer: another byte, the
\* smallest value that is no byte, and the largest field element
TamperBytes == {CharCode("x"), Base, FieldP - 1}


WithEml(a, newEml, recompute) ==
    [a EXCEPT !.eml = newEml,
              !.eml_commitment =
                  IF recompute THEN RollingPoseidon(MAX, NUM_CHUNKS, newEml).commitment
                  ELSE @]

\* the assignment read from input.json, unchanged
ProveHonest ==
    /\ pc = "done"
    /\ wit = <<>>
    /\ Supply(ParseInput(inputJson[1]), "honest")

\* input.json with another declared commitment
ProveOtherCommitment ==
    /\ pc = "done"
    /\ wit = <<>>
    /\ LET a == ParseInput(inputJson[1])
       IN  \E c \in {0, FAdd(a.eml_commitment, 1)} :
               /\ c # a.eml_commitment
               /\ Supply([a EXCEPT !.eml_commitment = c], "commitment")

\* input.json with one buffer entry changed: to another byte under the old
\* commitment, or to a value that is no byte with the commitment recomputed
ProveOtherByte ==
    /\ pc = "done"
    /\ wit = <<>>
    /\ LET a == ParseInput(inputJson[1])
       IN  \E i \in 0..(MAX - 1), b \in TamperBytes :
               /\ b # At(a.eml, i)
               /\ Supply(WithEml(a, [a.eml EXCEPT ![i + 1] = b], b >= Base), "byte")

\* offsets a tampering prover points a selector at; MAX stands for no offset
\* (the all-zero selector)
SelOffsets == {0, MAX - 1, MAX}

\* input.json with one selector replaced: one-hot elsewhere, all zero, or with
\* a second one
ProveOtherSelector ==
    /\ pc = "done"
    /\ wit = <<>>
    /\ LET a == ParseInput(inputJson[1])
       IN  \E which \in {"from", "to", "atg"}, q \in SelOffsets, second \in BOOLEAN :
               LET old == CASE which = "from" -> a.sel_from
                            [] which = "to" -> a.sel_to
                            [] OTHER -> a.sel_atg
                   new == IF q = MAX THEN [k \in 1..MAX |-> 0]
                          ELSE IF second THEN [old EXCEPT ![q + 1] = 1]
                          ELSE oneHot(MAX, q)
               IN  /\ new # old
                   /\ Supply(CASE which = "from" -> [a EXCEPT !.sel_from = new]
                               [] which = "to" -> [a EXCEPT !.sel_to = new]
                               [] OTHER -> [a EXCEPT !.sel_atg = new], "selector")

\* offsets a forging prover points the three selectors at
ForgeOffsets == {0, 1, MAX - ATG_LEN}

\* a prover who ignores the builder: the literals are read off the buffer at
\* offset p and the selectors point there
ProveForged ==
    /\ pc = "done" \/ (pc = "exit" /\ exitCode = 2)
    /\ wit = <<>>
    /\ \E p \in ForgeOffsets :
           Supply([eml_commitment |-> RollingPoseidon(MAX, NUM_CHUNKS, eml).commitment,
                  eml            |-> eml,
                  from_bytes     |-> Window(eml, p, FROM_LEN),
                  to_bytes       |-> Window(eml, p, TO_LEN),
                  atg_bytes      |-> Window(eml, p, ATG_LEN),
                  sel_from       |-> oneHot(MAX, p),
                  sel_to         |-> oneHot(MAX, p),
                  sel_atg        |-> oneHot(MAX, p)], "forged")

\* the constraints of the main component are evaluated at the assignment
CheckWitness ==
    /\ wit # <<>>
    /\ verdict = <<>>
    /\ verdict' = <<Main(wit[1])>>
    /\ UNCHANGED <<wit, witKind, lai>>
    /\ UNCHANGED extVars
    /\ UNCHANGED builderVars

Next ==
    \/ Usage
    \/ ReadFails
    \/ ReadAndPad
    \/ SearchLiterals
    \/ HashChunk
    \/ WriteInput
    \/ ProveHonest
    \/ ProveOtherCommitment
    \/ ProveOtherByte
    \/ ProveOtherSelector
    \/ ProveForged
    \/ CheckWitness

Spec == Init /\ [][Next]_vars

-----------------------------------------------------------------------------
\* Gadget specification: one LiteralAtIndex(GadgetLen, l) instance at every
\* assignment of its input signals over small value sets

GadgetBytes == {0, 1}

\* selector values: the booleans and two other field elements; the entries
\* 1, 1, FieldP - 1 sum to 1 in the field
SelVals == {0, 1, 2, FieldP - 1}

InitGadget ==
    /\ pc = "idle"
    /\ argv = <<>>
    /\ file = <<>>
    /\ eml = <<>>
    /\ idx_from = -1
    /\ idx_to = -1
    /\ idx_atg = -1
    /\ off = 0
    /\ h = 0
    /\ inputJson = <<>>
    /\ exitCode = -1
    /\ wit = <<>>
    /\ witKind = "none"
    /\ verdict = <<>>
    /\ ExtIdle
    /\ \E l \in 1..GadgetLitMax :
       \E b \in [1..GadgetLen -> GadgetBytes], lit \in [1..l -> GadgetBytes],
          s \in [1..GadgetLen -> SelVals] :
           lai = [n |-> GadgetLen, l |-> l, eml |-> b, lit |-> lit, sel |-> s,
                  res |-> <<>>]

\* the constraints of the instance are evaluated
LaiCheck ==
    /\ lai.n > 0
    /\ lai.res = <<>>
    /\ lai' = [lai EXCEPT !.res = <<LiteralAtIndex(lai.n, lai.l, lai.eml, lai.lit, lai.sel)>>]
    /\ UNCHANGED builderVars
    /\ UNCHANGED circuitVars
    /\ UNCHANGED extVars

NextGadget == LaiCheck

SpecGadget == InitGadget /\ [][NextGadget]_vars

-----------------------------------------------------------------------------
\* Properties of LiteralAtIndex (checked under SpecGadget)

LaiChecked == lai.res # <<>>

LaiWindow == 0..(lai.n - lai.l)

LaiOccurrences == {t \in LaiWindow : OccursAt(lai.eml, lai.lit, t)}

\* selector entries equal to 1, as 0-based offsets
OnesIn(sel, offsets) == {t \in offsets : At(sel, t) = 1}

LaiSelBoolean(offsets) == \A t \in offsets : At(lai.sel, t) \in {0, 1}

\* C1: a one-hot selector at a window offset p satisfies every constraint of
\* the gadget exactly when buffer[p..p+L) equals the literal, whether or not
\* the literal occurs elsewhere too.
C1_LiteralSoundness ==
    LaiChecked =>
        \A p \in LaiWindow :
            lai.sel = oneHot(lai.n, p) =>
                (LaiSatisfied(lai.res[1]) <=> OccursAt(lai.eml, lai.lit, p))

\* a one-hot selector at the second of several occurrences is accepted
C1_Witness ==
    /\ LaiChecked
    /\ LaiSatisfied(lai.res[1])
    /\ \E p \in LaiOccurrences :
           /\ lai.sel = oneHot(lai.n, p)
           /\ \E p0 \in LaiOccurrences : p0 < p
    /\ LaiWindow \ LaiOccurrences # {}

\* C2: when the literal occurs at no window offset, no selector assignment,
\* boolean or not, satisfies the gadget.
C2_AbsentLiteralUnsatisfiable ==
    (LaiChecked /\ LaiOccurrences = {}) => ~LaiSatisfied(lai.res[1])

\* a non-boolean selector whose entries sum to 1 in the field, literal absent
C2_Witness ==
    /\ LaiChecked
    /\ LaiOccurrences = {}
    /\ lai.res[1].sum
    /\ ~LaiSelBoolean(LaiWindow)
    /\ ~LaiSatisfied(lai.res[1])

\* C7: in every satisfying assignment the selector is boolean, zero outside
\* the window, and has exactly one entry equal to 1 inside the window.
C7_SelectorOneHotInWindow ==
    (LaiChecked /\ LaiSatisfied(lai.res[1])) =>
        /\ LaiSelBoolean(0..(lai.n - 1))
        /\ \A u \in (0..(lai.n - 1)) \ LaiWindow : At(lai.sel, u) = 0
        /\ Cardinality(OnesIn(lai.sel, LaiWindow)) = 1

\* a satisfying assignment of an instance whose window is shorter than the
\* buffer and in which the literal occurs more than once
C7_Witness ==
    /\ LaiChecked
    /\ LaiSatisfied(lai.res[1])
    /\ lai.l > 1
    /\ Cardinality(LaiOccurrences) > 1

\* C8 as stated, for boolean selectors: an all-zero selector, or a selector
\* with two or more ones, fails the sum constraint (step 3), whatever the
\* buffer holds.
C8_Original ==
    (LaiChecked /\ Cardinality(OnesIn(lai.sel, 0..(lai.n - 1))) # 1
                /\ \A t \in 0..(lai.n - 1) : At(lai.sel, t) \in {0, 1})
        => ~lai.res[1].sum

\* C8, amended: an all-zero selector, and a selector that is boolean on the
\* window with two or more ones inside the window, fail the sum constraint
\* whatever the buffer holds; a boolean selector with two or more ones of which
\* at most one lies inside the window is rejected by the sum constraint or by
\* the zero-outside-the-window constraint (step 2).
C8_OneHotEnforcement ==
    LaiChecked =>
        /\ (\A t \in 0..(lai.n - 1) : At(lai.sel, t) = 0) => ~lai.res[1].sum
        /\ (LaiSelBoolean(LaiWindow) /\ Cardinality(OnesIn(lai.sel, LaiWindow)) >= 2)
               => ~lai.res[1].sum
        /\ (LaiSelBoolean(0..(lai.n - 1))
            /\ Cardinality(OnesIn(lai.sel, 0..(lai.n - 1))) >= 2)
               => ~(lai.res[1].sum /\ lai.res[1].zero)

\* a boolean selector with two ones at two occurrences of the literal: only
\* the sum constraint rejects it
C8_Witness ==
    /\ LaiChecked
    /\ LaiSelBoolean(0..(lai.n - 1))
    /\ Cardinality(OnesIn(lai.sel, LaiWindow)) = 2
    /\ ~lai.res[1].sum
    /\ lai.res[1].boolean /\ lai.res[1].zero /\ lai.res[1].match

-----------------------------------------------------------------------------
\* Properties of the witness builder and of the main component (checked
\* under Spec)

Checked == verdict # <<>>

\* the three literals as the builder encodes them
FromBytes == strBytesAscii(fromStr)

ToBytes == strBytesAscii(toStr)

AtgBytes == strBytesAscii(atgStr)

\* t is the smallest offset at which lit occurs in buf
FirstOccurrence(buf, lit, t) ==
    /\ OccursAt(buf, lit, t)
    /\ \A u \in 0..(t - 1) : ~OccursAt(buf, lit, u)

Occurs(buf, lit) == \E t \in 0..(Len(buf) - 1) : OccursAt(buf, lit, t)

\* sel has a single nonzero entry, a 1 at offset t
OneHotAt(sel, t) == \A k \in 1..Len(sel) : sel[k] = (IF k - 1 = t THEN 1 ELSE 0)

\* C3: the assignment the builder writes satisfies every constraint of the
\* main component: bytes in range, commitment equality, and for each literal a
\* selector that is one-hot inside the window at an occurrence.
C3_BuilderWitnessSatisfies ==
    (witKind = "honest" /\ Checked) =>
        /\ Satisfied(verdict[1])
        /\ \A k \in 1..MAX : wit[1].eml[k] \in 0..(Base - 1)
        /\ wit[1].eml_commitment = RollingPoseidon(MAX, NUM_CHUNKS, wit[1].eml).commitment
        /\ \E t \in 0..(MAX - FROM_LEN) :
               OneHotAt(wit[1].sel_from, t) /\ OccursAt(wit[1].eml, wit[1].from_bytes, t)
        /\ \E t \in 0..(MAX - TO_LEN) :
               OneHotAt(wit[1].sel_to, t) /\ OccursAt(wit[1].eml, wit[1].to_bytes, t)
        /\ \E t \in 0..(MAX - ATG_LEN) :
               OneHotAt(wit[1].sel_atg, t) /\ OccursAt(wit[1].eml, wit[1].atg_bytes, t)

\* the builder's assignment for a document longer than MAX has been checked
C3_Witness ==
    /\ witKind = "honest"
    /\ Checked
    /\ Satisfied(verdict[1])
    /\ Len(file[1]) > MAX

\* C4: builder and circuit compute the same commitment: after k rounds of the
\* builder's loop h is the circuit's H[k-1].out, the loop runs NUM_CHUNKS
\* rounds, and the value written to input.json is RollingPoseidon's output;
\* the two folds agree on every padded buffer, searched successfully or not.
C4_SameCommitment ==
    /\ (pc = "hash" /\ off > 0) =>
           /\ off % ChunkLen = 0
           /\ h = RollingH(MAX, eml, (off \div ChunkLen) - 1)
    /\ (pc = "done" /\ wit = <<>>) =>
           /\ off = NUM_CHUNKS * ChunkLen
           /\ h = RollingPoseidon(MAX, NUM_CHUNKS, eml).commitment
           /\ FE(FromDec(inputJson[1].eml_commitment)) = h
    /\ (pc = "exit" /\ eml # <<>> /\ wit = <<>>) =>
           HashLoop(eml, 0, 0) = RollingPoseidon(MAX, NUM_CHUNKS, eml).commitment

\* the builder has folded all chunks of a buffer whose last chunk is partly
\* document, partly padding, and has written a nonzero commitment
C4_Witness ==
    /\ pc = "done"
    /\ wit = <<>>
    /\ MAX % ChunkLen # 0
    /\ At(eml, MAX - 1) # 0
    /\ h # 0
    /\ h = RollingPoseidon(MAX, NUM_CHUNKS, eml).commitment

\* C5: in every satisfying assignment the public commitment is the rolling
\* fold of the private buffer; a declared commitment that differs from the
\* recomputed one is never satisfied.
C5_CommitmentBound ==
    Checked =>
        LET folded == RollingPoseidon(MAX, NUM_CHUNKS, wit[1].eml).commitment
        IN  /\ Satisfied(verdict[1]) => wit[1].eml_commitment = folded
            /\ wit[1].eml_commitment # folded => ~verdict[1].commit

\* the builder's assignment with another declared commitment: the commitment
\* equality is the only constraint group that rejects it
C5_Witness ==
    /\ Checked
    /\ witKind = "commitment"
    /\ ~verdict[1].commit
    /\ verdict[1].bytes /\ verdict[1].from /\ verdict[1].to /\ verdict[1].atg

\* C6: literals read off the buffer, with selectors pointing at them and the
\* buffer's own commitment, satisfy the main component, also for a buffer
\* that contains none of the three required literals.
C6_ForgedLiteralsSatisfy ==
    (witKind = "forged" /\ Checked) =>
        /\ Satisfied(verdict[1])
        /\ wit[1].eml = eml
        /\ wit[1].eml_commitment = HashLoop(eml, 0, 0)

\* a satisfied forged assignment for a buffer the builder rejected because it
\* holds none of the three literals
C6_Witness ==
    /\ witKind = "forged"
    /\ Checked
    /\ Satisfied(verdict[1])
    /\ exitCode = 2
    /\ ~Occurs(eml, FromBytes) /\ ~Occurs(eml, ToBytes) /\ ~Occurs(eml, AtgBytes)
    /\ wit[1].from_bytes # FromBytes
    /\ wit[1].to_bytes # ToBytes
    /\ wit[1].atg_bytes # AtgBytes
    /\ \E k \in 1..MAX : eml[k] # 0

\* C9: each selector the builder emits is one-hot at the smallest offset at
\* which its literal occurs in the padded buffer, and that offset lies in the
\* window [0, MAX-L].
C9_FirstMatchInWindow ==
    /\ pc \in {"hash", "done"} =>
           /\ idx_from \in 0..(MAX - FROM_LEN) /\ FirstOccurrence(eml, FromBytes, idx_from)
           /\ idx_to \in 0..(MAX - TO_LEN) /\ FirstOccurrence(eml, ToBytes, idx_to)
           /\ idx_atg \in 0..(MAX - ATG_LEN) /\ FirstOccurrence(eml, AtgBytes, idx_atg)
    /\ (inputJson # <<>> /\ wit = <<>>) =>
           LET a == ParseInput(inputJson[1])
           IN  /\ OneHotAt(a.sel_from, idx_from)
               /\ OneHotAt(a.sel_to, idx_to)
               /\ OneHotAt(a.sel_atg, idx_atg)

\* input.json is written for a buffer in which "From:" occurs twice
C9_Witness ==
    /\ inputJson # <<>>
    /\ wit = <<>>
    /\ \E t \in 0..(MAX - FROM_LEN) : t > idx_from /\ OccursAt(eml, FromBytes, t)
    /\ OneHotAt(ParseInput(inputJson[1]).sel_from, idx_from)

AllLiteralsOccur(buf) ==
    Occurs(buf, FromBytes) /\ Occurs(buf, ToBytes) /\ Occurs(buf, AtgBytes)

\* C10: if a literal is absent from the padded buffer the builder ends with
\* exit code 2 (1 is the usage error, 3 the exception), with no commitment
\* computed and no input.json; input.json exists only if all three occur.
C10_AbsentLiteralError ==
    /\ (eml # <<>> /\ pc # "search" /\ ~AllLiteralsOccur(eml)) =>
           /\ pc = "exit" /\ exitCode = 2
           /\ h = 0 /\ off = 0
           /\ inputJson = <<>>
    /\ inputJson # <<>> => (AllLiteralsOccur(eml) /\ exitCode = 0)
    /\ exitCode = 2 => (eml # <<>> /\ ~AllLiteralsOccur(eml))
    /\ exitCode = 1 => (argv = <<>> /\ eml = <<>> /\ inputJson = <<>>)
    /\ exitCode = 3 => (argv # <<>> /\ file = <<>> /\ eml = <<>> /\ inputJson = <<>>)

\* the builder has exited with 2 on a buffer that holds two of the three
\* literals
C10_Witness ==
    /\ pc = "exit"
    /\ exitCode = 2
    /\ Occurs(eml, FromBytes) /\ Occurs(eml, ToBytes) /\ ~Occurs(eml, AtgBytes)
    /\ inputJson = <<>>

-----------------------------------------------------------------------------
\* Truncation (checked under Spec)

\* the first MAX bytes of a raw document
FirstMax(raw) == Slice(raw, 0, MAX)

\* what the builder leaves behind when it ends
BuilderOutcome == [exitCode |-> exitCode, eml |-> eml, inputJson |-> inputJson]

\* the builder's result on the raw document, computed in one piece
RunOn(raw) ==
    LET b == PadTo(raw)
        f == indexOf(b, FromBytes)
        t == indexOf(b, ToBytes)
        g == indexOf(b, AtgBytes)
    IN  IF f < 0 \/ t < 0 \/ g < 0
        THEN [exitCode |-> 2, eml |-> b, inputJson |-> <<>>]
        ELSE [exitCode |-> 0, eml |-> b,
              inputJson |-> <<[eml_commitment |-> Dec(HashLoop(b, 0, 0)),
                               eml            |-> DecAll(b),
                               from_bytes     |-> DecAll(FromBytes),
                               to_bytes       |-> DecAll(ToBytes),
                               atg_bytes      |-> DecAll(AtgBytes),
                               sel_from       |-> DecAll(oneHot(MAX, f)),
                               sel_to         |-> DecAll(oneHot(MAX, t)),
                               sel_atg        |-> DecAll(oneHot(MAX, g))]>>]

BuilderEnded == pc \in {"done", "exit"} /\ argv # <<>> /\ file # <<>> /\ wit = <<>>

\* C11: two documents that agree on their first MAX bytes give the same
\* outcome: the same error, or the same buffer, commitment and selectors.  The
\* buffer has exactly MAX entries, and a literal counts as present only if it
\* occurs inside the first MAX bytes.
C11_Truncation ==
    BuilderEnded =>
        /\ Len(eml) = MAX
        /\ \A d2 \in Docs :
               FirstMax(d2) = FirstMax(file[1]) => BuilderOutcome = RunOn(d2)
        /\ exitCode = 0 <=> AllLiteralsOccur(FirstMax(file[1]))
        /\ exitCode = 2 <=> ~AllLiteralsOccur(FirstMax(file[1]))

\* the builder has rejected a document that holds all three literals, "To:"
\* only past position MAX, and that shares its first MAX bytes with another
\* document
C11_Witness ==
    /\ BuilderEnded
    /\ exitCode = 2
    /\ Len(file[1]) > MAX
    /\ AllLiteralsOccur(file[1])
    /\ ~Occurs(FirstMax(file[1]), ToBytes)
    /\ \E d2 \in Docs : d2 # file[1] /\ FirstMax(d2) = FirstMax(file[1])

-----------------------------------------------------------------------------
\* Range check of the buffer (checked under Spec)

\* buffer offsets whose entry is no ByteBits-bit value
NonBytes(buf) == {i \in 0..(Len(buf) - 1) : At(buf, i) \notin 0..(Base - 1)}

\* C13: an assignment in which some buffer entry eml[i], i in 0..MAX-1, is not
\* a byte value is never satisfied: the range checks reject it, whatever the
\* other constraint groups say.
C13_EveryIndexRangeChecked ==
    (Checked /\ NonBytes(wit[1].eml) # {}) =>
        /\ ~verdict[1].bytes
        /\ ~Satisfied(verdict[1])

\* the builder's assignment with the last buffer entry, in the zero-padded
\* final chunk, replaced by the largest field element and the commitment
\* recomputed: the range checks are the only constraint group that rejects it
C13_Witness ==
    /\ Checked
    /\ witKind = "byte"
    /\ NonBytes(wit[1].eml) = {MAX - 1}
    /\ At(wit[1].eml, MAX - 1) = FieldP - 1
    /\ MAX % ChunkLen # 0
    /\ ~verdict[1].bytes
    /\ verdict[1].commit /\ verdict[1].from /\ verdict[1].to /\ verdict[1].atg

-----------------------------------------------------------------------------
\* Instantiation specification: EmlHasHeadersSimple(n) for the sizes n the
\* template admits, with its RollingPoseidon(n, NUM_CHUNKS) component built
\* chunk by chunk.  The chunk count is a number written in the template, not
\* derived from the parameter.

\* sizes the template is instantiated with: every literal must fit
InstSizes == ATG_LEN..(MAX + 2 * ChunkLen)

\* byte values filling the buffer of an instance (nonzero, to tell data from
\* padding)
InstBytes == {1, Base - 1}

\* buffer indices wired to packers[c]: idx = c * 31 + k with idx < maxLen
ChunkIndices(maxLen, c) ==
    {idx \in (c * ChunkLen)..(c * ChunkLen + ChunkLen - 1) : idx < maxLen}

BuilderIdle ==
    /\ pc = "idle"
    /\ argv = <<>>
    /\ file = <<>>
    /\ eml = <<>>
    /\ idx_from = -1
    /\ idx_to = -1
    /\ idx_atg = -1
    /\ off = 0
    /\ h = 0
    /\ inputJson = <<>>
    /\ exitCode = -1

CircuitIdle ==
    /\ wit = <<>>
    /\ witKind = "none"
    /\ verdict = <<>>

InitChunks ==
    /\ BuilderIdle
    /\ CircuitIdle
    /\ lai = IdleLai
    /\ pk = IdlePk
    /\ RelayerIdle
    /\ RecorderIdle
    /\ \E n \in InstSizes, b \in InstBytes :
           rp = [maxLen |-> n, eml |-> [k \in 1..n |-> b], c |-> 0, fed |-> <<>>,
                 h |-> 0]

\* one round of the two loops of RollingPoseidon: packers[c] is wired and
\* H[c] folds its output
WireAndFold ==
    /\ rp.maxLen > 0
    /\ rp.c < NUM_CHUNKS
    /\ rp' = [rp EXCEPT
                !.c = @ + 1,
                !.fed = Append(@, ChunkIndices(rp.maxLen, rp.c)),
                !.h = Compress(IF rp.c = 0 THEN 0 ELSE rp.h,
                               PackerOut(PackerInput(rp.maxLen, rp.eml, rp.c)))]
    /\ UNCHANGED builderVars
    /\ UNCHANGED circuitVars
    /\ UNCHANGED <<lai, pk, relayerVars, recorderVars>>

NextChunks == WireAndFold

SpecChunks == InitChunks /\ [][NextChunks]_vars

\* ceil(n / d)
CeilDiv(n, d) == (n + d - 1) \div d

\* every chunk of the instance has been wired and folded
RpBuilt == rp.maxLen > 0 /\ rp.c = NUM_CHUNKS

\* C12 as stated: for every size the template is instantiated with, exactly
\* ceil(size / ChunkLen) chunks are folded, every buffer index belongs to
\* exactly one chunk, only the final chunk is zero-padded, and no all-zero
\* chunk is folded after it.
C12_Original ==
    RpBuilt =>
        /\ Len(rp.fed) = CeilDiv(rp.maxLen, ChunkLen)
        /\ \A i \in 0..(rp.maxLen - 1) :
               Cardinality({c \in 1..Len(rp.fed) : i \in rp.fed[c]}) = 1
        /\ \A c \in 1..(Len(rp.fed) - 1) : Cardinality(rp.fed[c]) = ChunkLen
        /\ \A c \in 1..Len(rp.fed) : rp.fed[c] # {}

\* the instance of the program, size MAX, has been built
C12_MainInstance ==
    /\ RpBuilt
    /\ rp.maxLen = MAX
    /\ Len(rp.fed) = CeilDiv(MAX, ChunkLen)
    /\ rp.h = RollingPoseidon(MAX, NUM_CHUNKS, rp.eml).commitment

-----------------------------------------------------------------------------
\* Packing specification: the circuit packer and the builder's pack31LE at
\* two chunks of valid bytes.  A chunk is what eml.slice(off, off + 31) returns,
\* at most ChunkLen entries; the circuit wires the missing entries to 0.

\* byte values of the chunks: the smallest two and the largest
PackBytes == {0, 1, Base - 1}

RECURSIVE ChunksOf(_)
\* the chunks of k entries and fewer
ChunksOf(k) ==
    IF k = 0 THEN {<<>>}
    ELSE ChunksOf(k - 1) \cup [1..k -> PackBytes]

InitPack ==
    /\ BuilderIdle
    /\ CircuitIdle
    /\ lai = IdleLai
    /\ rp = IdleRp
    /\ RelayerIdle
    /\ RecorderIdle
    /\ \E a \in ChunksOf(ChunkLen), b \in ChunksOf(ChunkLen) :
           pk = [on |-> TRUE, a |-> a, b |-> b, res |-> <<>>]

\* what both packers make of a chunk: the circuit's range checks and output,
\* the builder's BigInt
PackResult(chunk) ==
    LET bytes == PackerInput(Len(chunk), chunk, 0)
    IN  [bytes |-> bytes, ok |-> PackerBytesOk(bytes), out |-> PackerOut(bytes),
         js |-> pack31LE(chunk)]

\* both chunks are packed
PackBoth ==
    /\ pk.on
    /\ pk.res = <<>>
    /\ pk' = [pk EXCEPT !.res = <<PackResult(pk.a), PackResult(pk.b)>>]
    /\ UNCHANGED builderVars
    /\ UNCHANGED circuitVars
    /\ UNCHANGED <<lai, rp, relayerVars, recorderVars>>

NextPack == PackBoth

SpecPack == InitPack /\ [][NextPack]_vars

Packed == pk.on /\ pk.res # <<>>

\* C14: packing is injective over tuples of ChunkLen valid bytes: two chunks
\* that differ as tuples (a missing entry counting as 0) pack to different
\* values, in the circuit packer and in pack31LE, and equal tuples pack alike.
C14_PackingInjective ==
    Packed =>
        /\ pk.res[1].ok /\ pk.res[2].ok
        /\ (pk.res[1].bytes # pk.res[2].bytes) =>
               /\ pk.res[1].out # pk.res[2].out
               /\ pk.res[1].js # pk.res[2].js
        /\ (pk.res[1].bytes = pk.res[2].bytes) =>
               /\ pk.res[1].out = pk.res[2].out
               /\ pk.res[1].js = pk.res[2].js

\* two full chunks whose packed values are neighbours: the largest byte
\* followed by 0, and 0 followed by 1
C14_Witness ==
    /\ Packed
    /\ Len(pk.a) = ChunkLen /\ Len(pk.b) = ChunkLen
    /\ At(pk.a, 0) = Base - 1 /\ At(pk.a, 1) = 0
    /\ At(pk.b, 0) = 0 /\ At(pk.b, 1) = 1
    /\ pk.res[2].js = pk.res[1].js + 1
    /\ pk.res[2].out = pk.res[1].out + 1

-----------------------------------------------------------------------------
\* Relayer script (relayer/submit.js, main).  One action per await of main;
\* every request may fail, and a throw anywhere in main ends the process with
\* exit code 1 (main().catch), a return with exit code 0.

\* job-status requests counted per run
MaxPolls == 3

\* runs of the script in one working directory
MaxRuns == 2

\* { gasLimit: 850000 }
GAS_LIMIT == 850000

\* for (let i = 0; i < 180 && !aggregated; i++)
EXT_POLLS == 180

VkHashes == {"vk1", "vk2"}

\* bodies of a register-vk response: vkHash and meta.vkHash, each present or not
RegResponses ==
    {[vkHash |-> a, metaVkHash |-> m] : a \in {<<>>, <<"vk1">>}, m \in {<<>>, <<"vk2">>}}

\* vkReg.vkHash || (vkReg.meta && vkReg.meta.vkHash)
VkHashOf(reg) == IF reg.vkHash # <<>> THEN reg.vkHash ELSE reg.metaVkHash

\* keccak256 of the 32-byte big-endian words of public.json
publicInputsHash == "h1"

\* solidityKeccak256 of (provingId, vkHashHex, versionHash, inner): a 66
\* character hex string determined by the verification-key hash and the
\* public inputs hash
LeafOf(vk, pih) == [len |-> 66, vk |-> vk, pih |-> pih]

\* leaves an aggregation result may carry: well-formed ones and a short string
AggLeaves ==
    {LeafOf(v, publicInputsHash) : v \in VkHashes} \cup {[len |-> 10, vk |-> "", pih |-> ""]}

MerklePaths == {<<>>, <<"s1", "s2">>}

\* bodies of a job-status response; a body without aggregationDetails reads
\* as no leaf and the empty path
StatusResponses ==
    {[status |-> st, leaf |-> <<>>, path |-> <<>>] : st \in {"Queued", "Failed"}}
    \cup {[status |-> "Aggregated", leaf |-> l, path |-> q] :
             l \in {<<>>} \cup {<<x>> : x \in AggLeaves}, q \in MerklePaths}

relayerOthers == <<builderVars, circuitVars, lai, rp, pk, recorderVars>>

\* what the environment fixes for a run
runEnv == <<privateKey, ethersV, runs>>

\* main rejects: console.error(err); process.exit(1)
Throws == rpc' = "exit" /\ rexit' = 1

\* main returns
Returns == rpc' = "done" /\ rexit' = 0

Goes(where) == rpc' = where /\ rexit' = rexit

InitRelayer ==
    /\ BuilderIdle
    /\ CircuitIdle
    /\ lai = IdleLai
    /\ rp = IdleRp
    /\ pk = IdlePk
    /\ RecorderIdle
    /\ rpc = "start"
    /\ privateKey \in BOOLEAN
    /\ ethersV \in {5, 6}
    /\ cacheFile = <<>>
    /\ regRequests = 0
    /\ runs = 1
    /\ vkReg = <<>>
    /\ vkHash = <<>>
    /\ submitted = <<>>
    /\ last = <<>>
    /\ polls = 0
    /\ leafComputed = <<>>
    /\ vkHashHex = <<>>
    /\ viewCalls = <<>>
    /\ viewOk = "none"
    /\ txs = <<>>
    /\ rexit = -1

\* readJSON of proof.json, public.json or build/vkey.json throws
InputsUnreadable ==
    /\ rpc = "start"
    /\ Throws
    /\ UNCHANGED <<cacheFile, regRequests, vkReg, vkHash, submitted, last, polls,
                   leafComputed, vkHashHex, viewCalls, viewOk, txs>>
    /\ UNCHANGED runEnv
    /\ UNCHANGED relayerOthers

\* RegisterVk without the test of fs.existsSync(cachePath)
RegisterVk_Always ==
    /\ rpc = "start"
    /\ regRequests' = regRequests + 1
    /\ \E threw \in BOOLEAN, data \in RegResponses :
           IF threw
           THEN Throws /\ UNCHANGED <<cacheFile, vkReg, vkHash>>
           ELSE /\ cacheFile' = <<data>>
                /\ vkReg' = <<data>>
                /\ vkHash' = VkHashOf(data)
                /\ IF VkHashOf(data) = <<>> THEN Throws ELSE Goes("submit")
    /\ UNCHANGED <<submitted, last, polls, leafComputed, vkHashHex, viewCalls, viewOk, txs>>
    /\ UNCHANGED runEnv
    /\ UNCHANGED relayerOthers

\* no cache file: the register-vk request, the write of its response body to
\* the cache file, and the vkHash check
RegisterVk ==
    /\ rpc = "start"
    /\ cacheFile = <<>>
    /\ regRequests' = regRequests + 1
    /\ \E threw \in BOOLEAN, data \in RegResponses :
           IF threw
           THEN Throws /\ UNCHANGED <<cacheFile, vkReg, vkHash>>
           ELSE /\ cacheFile' = <<data>>
                /\ vkReg' = <<data>>
                /\ vkHash' = VkHashOf(data)
                /\ IF VkHashOf(data) = <<>> THEN Throws ELSE Goes("submit")
    /\ UNCHANGED <<submitted, last, polls, leafComputed, vkHashHex, viewCalls, viewOk, txs>>
    /\ UNCHANGED runEnv
    /\ UNCHANGED relayerOthers

\* the cache file exists: it is read instead, then the vkHash check
UseCachedVk ==
    /\ rpc = "start"
    /\ cacheFile # <<>>
    /\ vkReg' = cacheFile
    /\ vkHash' = VkHashOf(cacheFile[1])
    /\ IF VkHashOf(cacheFile[1]) = <<>> THEN Throws ELSE Goes("submit")
    /\ UNCHANGED <<cacheFile, regRequests, submitted, last, polls, leafComputed, vkHashHex,
                   viewCalls, viewOk, txs>>
    /\ UNCHANGED runEnv
    /\ UNCHANGED relayerOthers

\* the submit-proof request with proofData.vk = vkHash, and the jobId check
SubmitProof ==
    /\ rpc = "submit"
    /\ submitted' = vkHash
    /\ \E outcome \in {"threw", "noJobId", "jobId"} :
           IF outcome = "jobId" THEN Goes("poll") ELSE Throws
    /\ UNCHANGED <<cacheFile, regRequests, vkReg, vkHash, last, polls, leafComputed, vkHashHex,
                   viewCalls, viewOk, txs>>
    /\ UNCHANGED runEnv
    /\ UNCHANGED relayerOthers

\* PollStatus leaving the loop on status 'Failed' as well
PollStatus_LeavesOnFailed ==
    /\ rpc = "poll"
    /\ polls' = IF polls < MaxPolls THEN polls + 1 ELSE polls
    /\ \E threw \in BOOLEAN, st \in StatusResponses :
           IF threw
           THEN Throws /\ UNCHANGED last
           ELSE /\ last' = <<st>>
                /\ IF st.status \in {"Aggregated", "Failed"}
                   THEN Goes("grace") ELSE Goes("poll")
    /\ UNCHANGED <<cacheFile, regRequests, vkReg, vkHash, submitted, leafComputed, vkHashHex,
                   viewCalls, viewOk, txs>>
    /\ UNCHANGED runEnv
    /\ UNCHANGED relayerOthers

\* one round of for (;;): a job-status request; the loop is left only by
\* status 'Aggregated', otherwise the next round starts after 5 seconds
PollStatus ==
    /\ rpc = "poll"
    /\ polls' = IF polls < MaxPolls THEN polls + 1 ELSE polls
    /\ \E threw \in BOOLEAN, st \in StatusResponses :
           IF threw
           THEN Throws /\ UNCHANGED last
           ELSE /\ last' = <<st>>
                /\ IF st.status = "Aggregated" THEN Goes("grace") ELSE Goes("poll")
    /\ UNCHANGED <<cacheFile, regRequests, vkReg, vkHash, submitted, leafComputed, vkHashHex,
                   viewCalls, viewOk, txs>>
    /\ UNCHANGED runEnv
    /\ UNCHANGED relayerOthers

\* the recording transaction of the branch under if (PRIVATE_KEY) in the else
\* part: no precheck before it, no gas limit given
UncheckedRecord(path, mined) ==
    [fn |-> "recordAfterAggregation", leaf |-> <<>>, pih |-> <<publicInputsHash>>,
     path |-> path, gasLimit |-> 0, status |-> IF mined THEN "mined" ELSE "failed"]

\* the 15 second grace wait has passed: the branch on
\* last.status === 'Aggregated' && PRIVATE_KEY.  Taken, the leaf is recomputed
\* with the vkHash field of the cache file (ethers 5 solidityKeccak256 rejects
\* an undefined bytes32; ethers 6 has no solidityKeccak256).  Not taken with a
\* key, the script waits up to EXT_POLLS further job-status requests and then
\* records without a precheck; that whole branch is one step here.  Without a
\* key nothing is recorded.
AfterGrace ==
    /\ rpc = "grace"
    /\ IF last[1].status = "Aggregated" /\ privateKey
       THEN LET field == cacheFile[1].vkHash
            IN  /\ vkHashHex' = <<field>>
                /\ IF ethersV # 5 \/ field = <<>>
                   THEN Throws /\ UNCHANGED leafComputed
                   ELSE /\ leafComputed' = <<LeafOf(field[1], publicInputsHash)>>
                        /\ Goes("precheck")
                /\ UNCHANGED <<last, polls, txs>>
       ELSE IF privateKey
       THEN \E k \in 1..EXT_POLLS, threw \in BOOLEAN, st2 \in StatusResponses,
               mined \in BOOLEAN :
                /\ polls' = IF polls + k < MaxPolls THEN polls + k ELSE MaxPolls
                /\ UNCHANGED <<leafComputed, vkHashHex>>
                /\ IF threw
                   THEN Throws /\ UNCHANGED <<last, txs>>
                   ELSE /\ last' = <<st2>>
                        /\ IF st2.status = "Aggregated"
                           THEN /\ txs' = Append(txs, UncheckedRecord(st2.path, mined))
                                /\ IF mined THEN Returns ELSE Throws
                           ELSE /\ k = EXT_POLLS
                                /\ Returns
                                /\ UNCHANGED txs
       ELSE /\ Returns
            /\ UNCHANGED <<last, polls, leafComputed, vkHashHex, txs>>
    /\ UNCHANGED <<cacheFile, regRequests, vkReg, vkHash, submitted, viewCalls, viewOk>>
    /\ UNCHANGED runEnv
    /\ UNCHANGED relayerOthers

\* the view call zkverify.verifyProofAggregation(domainId, aggregationId,
\* agg.leaf || leafComputed, merklePath, leafCount, index) and the two early
\* returns after it
Precheck ==
    /\ rpc = "precheck"
    /\ LET agg == last[1]
           leafArg == IF agg.leaf # <<>> THEN agg.leaf[1] ELSE leafComputed[1]
       IN  viewCalls' = Append(viewCalls, [leaf |-> leafArg, path |-> agg.path])
    /\ \E res \in {"true", "false", "threw"} :
           /\ viewOk' = res
           /\ IF res = "true" THEN Goes("record") ELSE Returns
    /\ UNCHANGED <<cacheFile, regRequests, vkReg, vkHash, submitted, last, polls,
                   leafComputed, vkHashHex, txs>>
    /\ UNCHANGED runEnv
    /\ UNCHANGED relayerOthers

\* the recording transaction is sent: recordWithLeaf with the aggregator's
\* leaf if that leaf is a 66 character string other than the recomputed one,
\* recordAfterAggregation with the public inputs hash otherwise
SendRecord ==
    /\ rpc = "record"
    /\ LET agg == last[1]
           useLeaf == /\ agg.leaf # <<>>
                      /\ agg.leaf[1].len = 66
                      /\ agg.leaf[1] # leafComputed[1]
           tx == IF useLeaf
                 THEN [fn |-> "recordWithLeaf", leaf |-> agg.leaf, pih |-> <<>>,
                       path |-> agg.path, gasLimit |-> GAS_LIMIT, status |-> ""]
                 ELSE [fn |-> "recordAfterAggregation", leaf |-> <<>>,
                       pih |-> <<publicInputsHash>>, path |-> agg.path,
                       gasLimit |-> GAS_LIMIT, status |-> ""]
       IN  \E sent \in BOOLEAN :
               /\ txs' = Append(txs, [tx EXCEPT !.status = IF sent THEN "pending"
                                                           ELSE "failed"])
               /\ IF sent THEN Goes("wait") ELSE Throws
    /\ UNCHANGED <<cacheFile, regRequests, vkReg, vkHash, submitted, last, polls,
                   leafComputed, vkHashHex, viewCalls, viewOk>>
    /\ UNCHANGED runEnv
    /\ UNCHANGED relayerOthers

\* ConfirmRecord sending the transaction again when the confirmation fails
ConfirmRecord_Resend ==
    /\ rpc = "wait"
    /\ \E mined \in BOOLEAN :
           /\ txs' = [txs EXCEPT ![Len(txs)].status = IF mined THEN "mined" ELSE "failed"]
           /\ IF mined THEN Returns ELSE Goes("record")
    /\ UNCHANGED <<cacheFile, regRequests, vkReg, vkHash, submitted, last, polls,
                   leafComputed, vkHashHex, viewCalls, viewOk>>
    /\ UNCHANGED runEnv
    /\ UNCHANGED relayerOthers

\* await tx.wait(): the transaction is mined, or it reverts and wait rejects
ConfirmRecord ==
    /\ rpc = "wait"
    /\ \E mined \in BOOLEAN :
           /\ txs' = [txs EXCEPT ![Len(txs)].status = IF mined THEN "mined" ELSE "failed"]
           /\ IF mined THEN Returns ELSE Throws
    /\ UNCHANGED <<cacheFile, regRequests, vkReg, vkHash, submitted, last, polls,
                   leafComputed, vkHashHex, viewCalls, viewOk>>
    /\ UNCHANGED runEnv
    /\ UNCHANGED relayerOthers

\* the script is started again in the same working directory
Rerun ==
    /\ rpc \in {"done", "exit"}
    /\ runs < MaxRuns
    /\ runs' = runs + 1
    /\ rpc' = "start"
    /\ rexit' = -1
    /\ privateKey' \in BOOLEAN
    /\ vkReg' = <<>>
    /\ vkHash' = <<>>
    /\ submitted' = <<>>
    /\ last' = <<>>
    /\ polls' = 0
    /\ leafComputed' = <<>>
    /\ vkHashHex' = <<>>
    /\ viewCalls' = <<>>
    /\ viewOk' = "none"
    /\ txs' = <<>>
    /\ UNCHANGED <<ethersV, cacheFile, regRequests>>
    /\ UNCHANGED relayerOthers

\* a step of the running script
RelayerStep ==
    \/ InputsUnreadable
    \/ RegisterVk
    \/ UseCachedVk
    \/ SubmitProof
    \/ PollStatus
    \/ AfterGrace
    \/ Precheck
    \/ SendRecord
    \/ ConfirmRecord

NextRelayer == RelayerStep \/ Rerun

SpecRelayer == InitRelayer /\ [][NextRelayer]_vars

\* the event loop runs every continuation and timer that is due: a script
\* that can take a step takes one
SpecRelayerFair == SpecRelayer /\ WF_vars(RelayerStep)

-----------------------------------------------------------------------------
\* Properties of the relayer script (checked under SpecRelayer, the liveness
\* claim under SpecRelayerFair)

RelayerEnded == rpc \in {"done", "exit"}

SawAggregated == last # <<>> /\ last[1].status = "Aggregated"

\* C15 as stated: polling is bounded; unless the job reaches status
\* 'Aggregated', a polling script eventually gives up and terminates.
C15_Original == (rpc = "poll") ~> (RelayerEnded \/ SawAggregated)

RECURSIVE Reverse(_)
Reverse(q) == IF q = <<>> THEN <<>> ELSE Append(Reverse(Tail(q)), q[1])

\* C16 as stated: when the view call returned false, the script has called
\* the view a second time, with the reversed Merkle path, before it gives up.
C16_Original ==
    (RelayerEnded /\ viewOk = "false") =>
        /\ Len(viewCalls) >= 2
        /\ viewCalls[2].path = Reverse(viewCalls[1].path)

\* C17 as stated: after a precheck that returned true, the recording
\* transaction sent is recordWithLeaf, whatever the aggregation result.
C17_Original ==
    (viewOk = "true" /\ txs # <<>>) =>
        \A k \in 1..Len(txs) : txs[k].fn = "recordWithLeaf"

\* C18: a run sends at most one recording transaction, with gas limit
\* 850000; when sending or confirming it fails the script has ended with exit
\* code 1 and nothing was sent again.
C18_SingleRecordAttempt ==
    /\ Len(txs) <= 1
    /\ \A k \in 1..Len(txs) :
           /\ txs[k].gasLimit = GAS_LIMIT
           /\ txs[k].status = "failed" => (rpc = "exit" /\ rexit = 1)
           /\ txs[k].status = "pending" => rpc = "wait"
           /\ txs[k].status = "mined" => (rpc = "done" /\ rexit = 0)

\* the one transaction of a run reverted and the script ended with an error
C18_Witness ==
    /\ Len(txs) = 1
    /\ txs[1].status = "failed"
    /\ txs[1].gasLimit = GAS_LIMIT
    /\ rpc = "exit"
    /\ rexit = 1
    /\ viewOk = "true"

\* C19: a recording transaction is sent only after a job-status response
\* with status 'Aggregated' and a view call that returned true in the same
\* run; after a view call that returned false or threw, the script has ended
\* normally with no transaction sent.
C19_RecordOnlyAfterPrecheck ==
    /\ txs # <<>> =>
           /\ SawAggregated
           /\ viewOk = "true"
           /\ Len(viewCalls) = 1
           /\ \A k \in 1..Len(txs) :
                  txs[k].fn \in {"recordAfterAggregation", "recordWithLeaf"}
    /\ rpc \in {"record", "wait"} => (SawAggregated /\ viewOk = "true")
    /\ viewOk \in {"false", "threw"} =>
           /\ txs = <<>>
           /\ rpc = "done"
           /\ rexit = 0

\* a run that polled a job still queued, then saw it aggregated, prechecked
\* it and recorded it
C19_Witness ==
    /\ polls >= 2
    /\ SawAggregated
    /\ viewOk = "true"
    /\ Len(txs) = 1
    /\ txs[1].status = "mined"
    /\ rpc = "done"

-----------------------------------------------------------------------------
\* Properties of the verification-key registration of the relayer script
\* (checked under SpecRelayer)

\* C22: a register-vk request is sent only while the cache file does not
\* exist; once the file exists no later step of any run sends a request or
\* changes the file, and the registration a run works with is the file's.
C22_RegistrationIdempotent ==
    /\ [][regRequests' # regRequests =>
              (cacheFile = <<>> /\ regRequests' = regRequests + 1)]_vars
    /\ [][cacheFile # <<>> =>
              (cacheFile' = cacheFile /\ regRequests' = regRequests)]_vars
    /\ [](vkReg # <<>> => vkReg = cacheFile)
    /\ [](cacheFile # <<>> => regRequests >= 1)

\* a second run that read the registration cached by the first, sent no
\* request and went on to submit
C22_Witness ==
    /\ runs = 2
    /\ regRequests = 1
    /\ cacheFile # <<>>
    /\ vkReg = cacheFile
    /\ rpc = "submit"

\* C23 as stated: whenever the cache file exists after a run, a vkHash can be
\* read from it (vkHash or meta.vkHash).
C23_Original ==
    (RelayerEnded /\ cacheFile # <<>>) => VkHashOf(cacheFile[1]) # <<>>

\* C24 as stated: in a run that submitted a proof, the vkHash the leaf
\* recomputation reads is the value sent as proofData.vk.
C24_Original ==
    (submitted # <<>> /\ vkHashHex # <<>>) => vkHashHex[1] = submitted

-----------------------------------------------------------------------------
\* Recorder contract (EmlProofRecorder).  A step is one external call of
\* recordAfterAggregation or recordWithLeaf, by any sender with any
\* arguments; a revert leaves the storage as it was.  The view call into
\* zkVerify cannot write storage; its answer is the environment's.  bytes32(0)
\* is 0.

\* bytes32 immutable vkey, set by the constructor
vkey == "vk1"

\* values passed as publicInputsHash
PihArgs == {"h1", "h2"}

\* values passed as relayerTxHash
TxHashArgs == {0, 1, 2}

Senders == {"relayer", "other"}

\* keccak256(abi.encodePacked(PROVING_SYSTEM_ID, vkey, VERSION_HASH,
\* keccak256(abi.encodePacked(_changeEndianess(publicInputsHash))))): a
\* bytes32 determined by vkey and publicInputsHash
ComposeLeaf(pih) == LeafOf(vkey, pih)

\* values passed as leaf: the leaves the contract composes and one it does
\* not compose
ChainLeaves == {ComposeLeaf(p) : p \in PihArgs} \cup {LeafOf("vk2", "h1")}

\* answers of IVerifyProofAggregation(zkVerify).verifyProofAggregation
ViewAnswers == {"true", "false", "reverted"}

recorderOthers == <<builderVars, circuitVars, lai, rp, pk, relayerVars>>

InitRecorder ==
    /\ BuilderIdle
    /\ CircuitIdle
    /\ lai = IdleLai
    /\ rp = IdleRp
    /\ pk = IdlePk
    /\ RelayerIdle
    /\ statementToTxHash = [l \in ChainLeaves |-> 0]
    /\ events = {}
    /\ lastCall = <<>>

\* RecordBody without require(statementToTxHash[leaf] == bytes32(0))
RecordBody_Overwrite(fn, leaf, relayerTxHash, sender) ==
    \E answer \in ViewAnswers :
        LET result ==
                IF relayerTxHash = 0 THEN "txHash"
                ELSE IF answer = "reverted" THEN "reverted"
                ELSE IF answer = "false" THEN "Invalid aggregation"
                ELSE "ok"
        IN  /\ lastCall' = <<[fn |-> fn, leaf |-> leaf, relayerTxHash |-> relayerTxHash,
                              sender |-> sender,
                              view |-> IF relayerTxHash = 0 THEN "none" ELSE answer,
                              before |-> statementToTxHash[leaf], result |-> result]>>
            /\ IF result = "ok"
               THEN /\ statementToTxHash' = [statementToTxHash EXCEPT ![leaf] = relayerTxHash]
                    /\ events' = events \cup {[statement |-> leaf,
                                               relayerTxHash |-> relayerTxHash,
                                               sender |-> sender]}
               ELSE UNCHANGED <<statementToTxHash, events>>

\* RecordBody without require(ok, "Invalid aggregation")
RecordBody_NoAggCheck(fn, leaf, relayerTxHash, sender) ==
    \E answer \in ViewAnswers :
        LET result ==
                IF relayerTxHash = 0 THEN "txHash"
                ELSE IF answer = "reverted" THEN "reverted"
                ELSE IF statementToTxHash[leaf] # 0 THEN "already recorded"
                ELSE "ok"
        IN  /\ lastCall' = <<[fn |-> fn, leaf |-> leaf, relayerTxHash |-> relayerTxHash,
                              sender |-> sender,
                              view |-> IF relayerTxHash = 0 THEN "none" ELSE answer,
                              before |-> statementToTxHash[leaf], result |-> result]>>
            /\ IF result = "ok"
               THEN /\ statementToTxHash' = [statementToTxHash EXCEPT ![leaf] = relayerTxHash]
                    /\ events' = events \cup {[statement |-> leaf,
                                               relayerTxHash |-> relayerTxHash,
                                               sender |-> sender]}
               ELSE UNCHANGED <<statementToTxHash, events>>

\* the statements both record functions share once the leaf is known: the
\* three requires in their order, the write and the event
RecordBody(fn, leaf, relayerTxHash, sender) ==
    \E answer \in ViewAnswers :
        LET result ==
                IF relayerTxHash = 0 THEN "txHash"
                ELSE IF answer = "reverted" THEN "reverted"
                ELSE IF answer = "false" THEN "Invalid aggregation"
                ELSE IF statementToTxHash[leaf] # 0 THEN "already recorded"
                ELSE "ok"
        IN  /\ lastCall' = <<[fn |-> fn, leaf |-> leaf, relayerTxHash |-> relayerTxHash,
                              sender |-> sender,
                              view |-> IF relayerTxHash = 0 THEN "none" ELSE answer,
                              before |-> statementToTxHash[leaf], result |-> result]>>
            /\ IF result = "ok"
               THEN /\ statementToTxHash' = [statementToTxHash EXCEPT ![leaf] = relayerTxHash]
                    /\ events' = events \cup {[statement |-> leaf,
                                               relayerTxHash |-> relayerTxHash,
                                               sender |-> sender]}
               ELSE UNCHANGED <<statementToTxHash, events>>

recordAfterAggregation ==
    /\ \E pih \in PihArgs, t \in TxHashArgs, sender \in Senders :
           RecordBody("recordAfterAggregation", ComposeLeaf(pih), t, sender)
    /\ UNCHANGED recorderOthers

recordWithLeaf ==
    /\ \E leaf \in ChainLeaves, t \in TxHashArgs, sender \in Senders :
           RecordBody("recordWithLeaf", leaf, t, sender)
    /\ UNCHANGED recorderOthers

\* function isRecorded(bytes32 statement) external view
isRecorded(statement) == statementToTxHash[statement] # 0

NextRecorder == recordAfterAggregation \/ recordWithLeaf

SpecRecorder == InitRecorder /\ [][NextRecorder]_vars

-----------------------------------------------------------------------------
\* Properties of the recorder contract (checked under SpecRecorder)

\* the latest call resolved to a leaf that was recorded before it
CallOnRecorded == lastCall # <<>> /\ lastCall[1].before # 0

\* C20 as stated: once recorded a leaf keeps its value, and every later record
\* call that resolves to it reverts with "already recorded".
C20_Original ==
    CallOnRecorded =>
        /\ statementToTxHash[lastCall[1].leaf] = lastCall[1].before
        /\ lastCall[1].result = "already recorded"

\* C20, amended: once statementToTxHash[leaf] is nonzero it never changes,
\* and every later record call that resolves to the same leaf reverts: with
\* "txHash" if its relayerTxHash is zero, else with "Invalid aggregation" (or
\* the revert of zkVerify) if the aggregation check fails, else with
\* "already recorded".
C20_WriteOnce ==
    /\ [][\A l \in ChainLeaves :
              statementToTxHash[l] # 0 => statementToTxHash'[l] = statementToTxHash[l]]_vars
    /\ [](CallOnRecorded =>
            /\ statementToTxHash[lastCall[1].leaf] = lastCall[1].before
            /\ lastCall[1].result =
                   (IF lastCall[1].relayerTxHash = 0 THEN "txHash"
                    ELSE IF lastCall[1].view = "reverted" THEN "reverted"
                    ELSE IF lastCall[1].view = "false" THEN "Invalid aggregation"
                    ELSE "already recorded"))

\* a second sender's recordWithLeaf, with another transaction hash and a true
\* aggregation check, for a leaf recordAfterAggregation had recorded: it
\* reverted with "already recorded" and the first value is still stored
C20_Witness ==
    /\ CallOnRecorded
    /\ lastCall[1].fn = "recordWithLeaf"
    /\ lastCall[1].result = "already recorded"
    /\ lastCall[1].relayerTxHash # lastCall[1].before
    /\ statementToTxHash[lastCall[1].leaf] = lastCall[1].before
    /\ \E e \in events :
           /\ e.statement = lastCall[1].leaf
           /\ e.sender # lastCall[1].sender
           /\ e.relayerTxHash = lastCall[1].before

\* the latest call reverted before the write
CallRejected ==
    /\ lastCall # <<>>
    /\ (lastCall[1].relayerTxHash = 0 \/ lastCall[1].view # "true")

\* C21: the mapping changes only at the leaf of a call whose relayerTxHash is
\* nonzero and whose aggregation check returned true for that leaf, and takes
\* that relayerTxHash; a call with relayerTxHash zero or with a failed
\* aggregation check reverts and leaves the mapping as it was; isRecorded(leaf)
\* is true exactly for the leaves of ProofRecorded events, whose stored value
\* is the nonzero hash of such an event.
C21_RecordedOnlyAfterCheck ==
    /\ [][\A l \in ChainLeaves :
              statementToTxHash'[l] # statementToTxHash[l] =>
                  /\ lastCall'[1].leaf = l
                  /\ lastCall'[1].view = "true"
                  /\ lastCall'[1].relayerTxHash # 0
                  /\ lastCall'[1].result = "ok"
                  /\ statementToTxHash'[l] = lastCall'[1].relayerTxHash]_vars
    /\ [][(lastCall' # lastCall /\ CallRejected') =>
              /\ statementToTxHash' = statementToTxHash
              /\ events' = events
              /\ lastCall'[1].result \in {"txHash", "reverted", "Invalid aggregation"}]_vars
    /\ [](\A l \in ChainLeaves :
              /\ isRecorded(l) <=> \E e \in events : e.statement = l
              /\ isRecorded(l) =>
                     \E e \in events : /\ e.statement = l
                                        /\ e.relayerTxHash = statementToTxHash[l]
                                        /\ e.relayerTxHash # 0)

\* one leaf is recorded; a call for another leaf with a nonzero hash and a
\* false aggregation check reverted with "Invalid aggregation", and that leaf
\* is still unrecorded
C21_Witness ==
    /\ CallRejected
    /\ lastCall[1].relayerTxHash # 0
    /\ lastCall[1].view = "false"
    /\ lastCall[1].result = "Invalid aggregation"
    /\ ~isRecorded(lastCall[1].leaf)
    /\ \E l \in ChainLeaves : isRecorded(l)
    /\ \A e \in events : e.statement # lastCall[1].leaf

====
